---------------------------- MODULE Spec2Model ----------------------------
(***************************************************************************)
(* Walk decoding of GNNome-assembly (src/algorithms.py):                   *)
(*   - the walk sanitizer extract_non_duplicate_walk with its helper       *)
(*     extract_repetitive_pattern, as a pure function;                     *)
(*   - the contig extraction loop parallel_greedy_decoding, as a state     *)
(*     machine over one decoding run.                                      *)
(* Node ids are naturals; the reverse-complement partner of n is n XOR 1.  *)
(***************************************************************************)
EXTENDS Integers, Sequences, FiniteSets, TLC

VARIABLES
    \* ---- sanitizer called on its own ----
    walk_in,                \* the raw walk handed to extract_non_duplicate_walk
    walk_out,               \* the list it returned
    san_pc,                 \* "call" | "returned" | "raised"
    \* ---- parallel_greedy_decoding ----
    pc,                     \* position in the function
    n_original_g,           \* original_g.num_nodes()
    edges,                  \* edge set of original_g, pairs <<src, dst>>
    score,                  \* original_g.edata['score'], a function on edges
    nb_paths,               \* argument nb_paths
    len_threshold,          \* argument len_threshold
    all_walks,              \* running list all_walks
    all_walks_both_strands, \* running list all_walks_both_strands
    idx_contig,             \* outer iteration counter
    keep_node_idx,          \* nodes of sub_g in local-id order (= map_subg_to_g)
    src_init_edges,         \* per path: source of the sampled edge (local id)
    dst_init_edges,         \* per path: destination of the sampled edge (local id)
    dst_greedy_forward,     \* per local id: destination of its best outgoing edge
    dst_greedy_backward,    \* per local id: source of its best incoming edge
    idx_cur_nodes_subg,     \* per path: current node (local id)
    paths_nodes_forward,    \* forward buffer, one row per path
    paths_nodes_backward,   \* backward buffer, one row per path
    nb_steps,               \* step counter of the running phase
    flag_dead_ends,         \* loop flag: some walk still moves
    flag_cycles,            \* loop flag: cycle criterion has not fired
    raised_at,              \* source line of the statement that raised, 0 if none
    \* ---- ground-truth builders: dfs_gt_graph, get_components ----
    neighbors,              \* argument neighbors: per node, the list of its successors
    gt_pc,                  \* position in dfs_gt_graph
    read_start,             \* graph.ndata['read_start'], per node
    read_end,               \* graph.ndata['read_end'], per node
    read_strand,            \* graph.ndata['read_strand'], per node: 1 or -1
    last_pos,               \* dfs_gt_graph: last_pos
    gt_all_walks,           \* dfs_gt_graph: all_walks
    correct_nodes,          \* dfs_gt_graph: correct_nodes
    correct_edges,          \* dfs_gt_graph: correct_edges
    neg_str_correct_edges,  \* dfs_gt_graph: neg_str_correct_edges
    pos_str_edges,          \* first set returned by the last get_correct_edges call
    neg_str_edges,          \* second set returned by the last get_correct_edges call
    comp_pc,                \* position in get_components
    components,             \* get_components: the list components
    changes,                \* get_components: the flag changes
    \* ---- dfs run on its own ----
    dfs_pc,                 \* position in dfs
    dfs_start,              \* argument start
    dfs_avoid,              \* argument avoid
    dfs_stack,              \* dfs: stack, top at the right
    dfs_visited,            \* dfs: the nodes whose visited entry is True
    dfs_path,               \* dfs: the dictionary path
    dfs_max_node,           \* dfs: max_node
    dfs_max_value,          \* dfs: max_value
    dfs_order,              \* the nodes in the order the loop set their visited entry
    dfs_walk,               \* the walk dfs returned
    \* ---- dfs_gt_neurips_graph ----
    sweep_pc,               \* position in dfs_gt_neurips_graph
    all_nodes,              \* dfs_gt_neurips_graph: all_nodes
    largest_visited,        \* dfs_gt_neurips_graph: largest_visited
    sweep_all_walks,        \* dfs_gt_neurips_graph: all_walks
    sweep_all_visited,      \* dfs_gt_neurips_graph: all_visited
    pos_correct_edges,      \* dfs_gt_neurips_graph: pos_correct_edges
    neg_correct_edges,      \* dfs_gt_neurips_graph: neg_correct_edges
    sweep_walk              \* dfs_gt_neurips_graph: walk of the last round

san_vars == <<walk_in, walk_out, san_pc>>

dec_vars == <<pc, n_original_g, edges, score, nb_paths, len_threshold, all_walks,
              all_walks_both_strands, idx_contig, keep_node_idx, src_init_edges,
              dst_init_edges, dst_greedy_forward, dst_greedy_backward,
              idx_cur_nodes_subg, paths_nodes_forward,
              paths_nodes_backward, nb_steps, flag_dead_ends, flag_cycles,
              raised_at>>

gt_vars == <<gt_pc, read_start, read_end, read_strand, last_pos, gt_all_walks,
             correct_nodes, correct_edges, neg_str_correct_edges, pos_str_edges,
             neg_str_edges>>

comp_vars == <<comp_pc, components, changes>>

dfs_vars == <<dfs_pc, dfs_start, dfs_avoid, dfs_stack, dfs_visited, dfs_path, dfs_max_node,
              dfs_max_value, dfs_order, dfs_walk>>

sweep_vars == <<sweep_pc, all_nodes, largest_visited, sweep_all_walks, sweep_all_visited,
                pos_correct_edges, neg_correct_edges, sweep_walk>>

truth_vars == <<neighbors, gt_vars, comp_vars, dfs_vars, sweep_vars>>

vars == <<walk_in, walk_out, san_pc, pc, n_original_g, edges, score, nb_paths, len_threshold,
          all_walks, all_walks_both_strands, idx_contig, keep_node_idx,
          src_init_edges, dst_init_edges, dst_greedy_forward, dst_greedy_backward,
              idx_cur_nodes_subg,
          paths_nodes_forward, paths_nodes_backward, nb_steps, flag_dead_ends,
          flag_cycles, raised_at, neighbors, gt_pc, read_start, read_end, read_strand,
          last_pos, gt_all_walks, correct_nodes, correct_edges, neg_str_correct_edges,
          pos_str_edges, neg_str_edges, comp_pc, components, changes, dfs_pc, dfs_start,
          dfs_avoid, dfs_stack, dfs_visited, dfs_path, dfs_max_node, dfs_max_value, dfs_order,
          dfs_walk, sweep_pc, all_nodes, largest_visited, sweep_all_walks, sweep_all_visited,
          pos_correct_edges, neg_correct_edges, sweep_walk>>

-----------------------------------------------------------------------------
(* Bounds of the model *)

\* largest node value in a walk given to the sanitizer on its own
SanMaxNode == 3

\* longest walk given to the sanitizer on its own
SanMaxLen == 6

-----------------------------------------------------------------------------
(* Sequence helpers *)

Range(s) == {s[i] : i \in 1..Len(s)}

Reverse(s) == [i \in 1..Len(s) |-> s[Len(s) + 1 - i]]

\* python slice s[a:b] with 0-based a, b already clipped to 0..len
Slice(s, a, b) == IF b <= a THEN <<>> ELSE [i \in 1..(b - a) |-> s[a + i]]

\* number of positions of s that hold v
Count(s, v) == Cardinality({i \in 1..Len(s) : s[i] = v})

NoDuplicates(s) == \A i, j \in 1..Len(s) : i # j => s[i] # s[j]

RECURSIVE SeqsUpTo(_, _)
\* all sequences over S of length 0..n
SeqsUpTo(S, n) ==
    IF n = 0 THEN {<<>>}
    ELSE LET shorter == SeqsUpTo(S, n - 1)
         IN  shorter \cup {Append(s, x) : s \in {t \in shorter : Len(t) = n - 1}, x \in S}

-----------------------------------------------------------------------------
(* Walk sanitizer: algorithms.py 32-77 *)

RECURSIVE extract_repetitive_pattern_no_remove(_, _)
\* the loop without val_duplicate.remove(i): a value is matched again and again
extract_repetitive_pattern_no_remove(idx_duplicate, val_duplicate) ==
    IF idx_duplicate = <<>> \/ Head(idx_duplicate) \notin val_duplicate
    THEN [pattern |-> <<>>, val_duplicate |-> val_duplicate]
    ELSE LET rest == extract_repetitive_pattern_no_remove(Tail(idx_duplicate),
                                                          val_duplicate)
         IN  [pattern |-> <<Head(idx_duplicate)>> \o rest.pattern,
              val_duplicate |-> rest.val_duplicate]

RECURSIVE extract_repetitive_pattern(_, _)
\* Longest prefix of idx_duplicate whose entries are each found in, and removed
\* from, val_duplicate; the loop stops at the first entry not found.
\* Returns the prefix and what is left of val_duplicate.
extract_repetitive_pattern(idx_duplicate, val_duplicate) ==
    IF idx_duplicate = <<>> \/ Head(idx_duplicate) \notin val_duplicate
    THEN [pattern |-> <<>>, val_duplicate |-> val_duplicate]
    ELSE LET rest == extract_repetitive_pattern(Tail(idx_duplicate),
                                                val_duplicate \ {Head(idx_duplicate)})
         IN  [pattern |-> <<Head(idx_duplicate)>> \o rest.pattern,
              val_duplicate |-> rest.val_duplicate]

\* values occurring exactly once (output[~bool_duplicate])
ValNonDuplicate(w) == {v \in Range(w) : Count(w, v) = 1}

\* values occurring more than once (output[bool_duplicate])
ValDuplicate(w) == {v \in Range(w) : Count(w, v) # 1}

\* 1-based positions holding a value that occurs once (idx_non_duplicate)
IdxNonDuplicate(w) == {i \in 1..Len(w) : Count(w, w[i]) = 1}

\* 1-based position of the value v, which occurs once in w
PositionOf(w, v) == CHOOSE i \in 1..Len(w) : w[i] = v

SetMin(S) == CHOOSE x \in S : \A y \in S : x <= y

SetMax(S) == CHOOSE x \in S : \A y \in S : y <= x

\* walk_in.squeeze() of a one-element walk is a 0-dim tensor and
\* walk_in.size(0) at line 49 raises IndexError.
extract_raises(w) == Len(w) = 1

\* the span counted without its last position
IdxEndMinusStart_no_plus_one(first, last) == last - first

\* line 54: idx_non_duplicate[-1] - idx_non_duplicate[0] + 1
IdxEndMinusStart(first, last) == last - first + 1

\* the right-hand call given every duplicate value again
RightValDuplicate_all_again(w, left) == ValDuplicate(w)

\* line 68 hands on what line 67 left of val_duplicate
RightValDuplicate(w, left) == left.val_duplicate

\* The list extract_non_duplicate_walk returns on w (Len(w) # 1).
extract_non_duplicate_walk(w) ==
    IF ValNonDuplicate(w) = {}
    THEN <<>>                                            \* no central part
    ELSE LET first == SetMin(IdxNonDuplicate(w))
             last == SetMax(IdxNonDuplicate(w))
             idx_end_minus_start == IdxEndMinusStart(first, last)
             num_non_duplicate == Cardinality(ValNonDuplicate(w))
         IN  IF num_non_duplicate # idx_end_minus_start
             THEN <<>>                                   \* disconnected central part
             ELSE LET len_non_duplicate_walk_in == Cardinality(Range(w))
                      central == SelectSeq(w, LAMBDA v : Count(w, v) = 1)
                      idx_central_start == PositionOf(w, central[1]) - 1
                      idx_central_end == PositionOf(w, central[Len(central)])
                      left == extract_repetitive_pattern(
                                  Reverse(Slice(w, 0, idx_central_start)), ValDuplicate(w))
                      right == extract_repetitive_pattern(
                                  Slice(w, idx_central_end, Len(w)),
                                  RightValDuplicate(w, left))
                      out == Reverse(left.pattern) \o central \o right.pattern
                  IN  IF Len(out) # len_non_duplicate_walk_in THEN <<>> ELSE out

-----------------------------------------------------------------------------
(* Bounds of the decoding runs *)

\* the input graph has 2 * NumPairs nodes, allocated in strand pairs (2k, 2k + 1)
NumPairs == 4

\* an input graph is spanned by at most MaxEdges + 1 - nb_paths edges and
\* their mirrored edges
MaxEdges == 3

\* an input edge joins nodes whose ids differ by at most MaxSpan
MaxSpan == 2

\* edge scores of the input are drawn from 1..MaxScore
MaxScore == 2

\* argument nb_paths is drawn from 1..MaxPaths
MaxPaths == 2

\* argument len_threshold is drawn from 1..MaxLenThreshold
MaxLenThreshold == 3

-----------------------------------------------------------------------------
(* Graph model *)

Nodes == 0..(n_original_g - 1)

\* n ^ 1, the reverse-complement partner (line 215)
Partner(n) == IF n % 2 = 0 THEN n + 1 ELSE n - 1

\* float('-inf') of line 102, below every score of the input
NegInf == 0

\* steps between two cycle checks (line 165)
CycleCheckPeriod == 100

\* candidate edges of an input graph: from a node to itself or to one of the
\* MaxSpan next nodes
EdgePool == {e \in Nodes \X Nodes : e[1] <= e[2] /\ e[2] - e[1] <= MaxSpan}

\* the edge of the opposite strand: (i -> j) is mirrored by (j^1 -> i^1)
Mirror(e) == <<Partner(e[2]), Partner(e[1])>>

\* the graph invariant: every edge has its mirrored edge
MirroredEdgeInvariant(E) == \A e \in E : Mirror(e) \in E

MirrorClosure(E) == E \cup {Mirror(e) : e \in E}

RECURSIVE SubsetsUpTo(_, _)
\* the subsets of S with at most k elements
SubsetsUpTo(S, k) ==
    IF k = 0 THEN {{}}
    ELSE LET smaller == SubsetsUpTo(S, k - 1)
         IN  smaller \cup {g \cup {e} : g \in smaller, e \in S}

\* dgl.remove_self_loop (line 99)
remove_self_loop(E) == {e \in E : e[1] # e[2]}

\* self_nodes paired with themselves (lines 100-101)
SelfLoops == {<<n, n>> : n \in Nodes}

\* an edge competes when another edge of E leaves its source or enters its
\* destination; the decoder compares scores between such edges only
Competes(e, E) ==
    \E d \in remove_self_loop(E) \ {e} : d[1] = e[1] \/ d[2] = e[2]

\* score vectors of the input: 1..MaxScore on competing edges, 1 elsewhere, an
\* edge and its mirrored edge scored alike
ScoreVectors(E) ==
    {sc \in [E -> 1..MaxScore] :
        \A e \in E : /\ (e[1] = e[2] \/ ~Competes(e, E)) => sc[e] = 1
                     /\ sc[Mirror(e)] = sc[e]}

\* strand pairs with a node on some edge of E
TouchedPairs(E) == {e[1] \div 2 : e \in E} \cup {e[2] \div 2 : e \in E}

\* input graphs: at most k edges of the pool and their mirrored edges, on the
\* first strand pairs (a graph that skips a pair is a renaming of one that
\* does not)
InputGraphs(k) ==
    {MirrorClosure(E) : E \in {F \in SubsetsUpTo(EdgePool, k) :
        TouchedPairs(MirrorClosure(F)) = 0..(Cardinality(TouchedPairs(MirrorClosure(F))) - 1)}}

\* the elements of a set of node ids in increasing order
SortedSeq(S) ==
    IF S = {} THEN <<>>
    ELSE SelectSeq([i \in 1..(SetMax(S) + 1) |-> i - 1], LAMBDA x : x \in S)

RECURSIVE Flatten(_)
\* [item for sublist in lists for item in sublist]
Flatten(lists) ==
    IF lists = <<>> THEN <<>> ELSE Head(lists) \o Flatten(Tail(lists))

-----------------------------------------------------------------------------
(* Sub-graph extraction: algorithms.py 117-134 *)

\* remove_node_idx taken from the last list alone
RemoveNodeIdx_last_list_only(both_strands) ==
    IF both_strands = <<>> THEN {} ELSE Range(both_strands[Len(both_strands)])

\* remove_node_idx (lines 118-121), as a set
RemoveNodeIdx(both_strands) == Range(Flatten(both_strands))

\* keep_node_idx left at all ones: nothing is removed
KeepNodeIdx_all_nodes(both_strands) == SortedSeq(Nodes)

\* keep_node_idx (lines 122-125): the nodes left, in increasing order; the
\* position of a node in it, minus one, is its id in sub_g (map_subg_to_g)
KeepNodeIdx(both_strands) == SortedSeq(Nodes \ RemoveNodeIdx(both_strands))

\* id in sub_g of the original node n
LocalId(keep, n) == (CHOOSE i \in 1..Len(keep) : keep[i] = n) - 1

\* the sub-graph id taken for the id in the original graph
MapSubgToG_local_id(keep, i) == i

\* map_subg_to_g[i] (line 134)
MapSubgToG(keep, i) == keep[i + 1]

\* edges of dgl.node_subgraph(original_g, keep_node_idx), in local ids (line 128)
SubEdges(E, keep) ==
    {<<LocalId(keep, e[1]), LocalId(keep, e[2])>> :
        e \in {d \in E : d[1] \in Range(keep) /\ d[2] \in Range(keep)}}

-----------------------------------------------------------------------------
(* Greedy successor tables: algorithms.py 13-29, 147-150, 174-176 *)

\* destinations of all outgoing edges of local node i in sub_g, whatever the score
BestSuccessors_any_score(E, sc, keep, i) ==
    {LocalId(keep, e[2]) : e \in {d \in E : d[1] = MapSubgToG(keep, i) /\ d[2] \in Range(keep)}}

\* destinations of the best-scoring outgoing edges of local node i in sub_g
BestSuccessors(E, sc, keep, i) ==
    LET out == {e \in E : e[1] = MapSubgToG(keep, i) /\ e[2] \in Range(keep)}
    IN  {LocalId(keep, e[2]) : e \in {d \in out : \A o \in out : sc[o] <= sc[d]}}

\* sources of the best-scoring incoming edges of local node i in sub_g
BestPredecessors(E, sc, keep, i) ==
    LET inc == {e \in E : e[2] = MapSubgToG(keep, i) /\ e[1] \in Range(keep)}
    IN  {LocalId(keep, e[1]) : e \in {d \in inc : \A o \in inc : sc[o] <= sc[d]}}

\* Greedy tables.  update_all fills ndata['dst_greedy'] for every node at once
\* (lines 147-150, 174-176); torch.max breaks a tie between equal scores by
\* mailbox order, which the decoder does not control.  An entry never read has
\* no effect, so the model keeps the entries read so far and fixes an entry,
\* once and for the whole phase, when a walk first reads it.
\* ReadTable: the tables that extend `table` by the entries of the nodes in cur,
\* best[i] being the candidates of node i.
ReadTable(table, cur, best) ==
    LET unread == Range(cur) \ DOMAIN table
    IN  {table @@ f : f \in {g \in [unread -> UNION {best[i] : i \in unread}] :
                                 \A i \in unread : g[i] \in best[i]}}

-----------------------------------------------------------------------------
(* Path buffers *)

\* a buffer and a budget of n_sub_g
HalfSize_whole(n_sub_g) == n_sub_g

\* n_sub_g // 2: width of a path buffer and step budget of a phase (156, 158)
HalfSize(n_sub_g) == n_sub_g \div 2

\* torch.zeros(nb_paths, width) with column 0 set to the global ids of cur
InitBuffer(P, width, keep, cur) ==
    [k \in 1..P |-> [c \in 1..width |-> IF c = 1 THEN MapSubgToG(keep, cur[k]) ELSE 0]]

\* buf[:, col] = global ids of nxt
WriteColumn(buf, col, keep, nxt) ==
    [k \in 1..Len(buf) |-> [buf[k] EXCEPT ![col + 1] = MapSubgToG(keep, nxt[k])]]

\* buf[:, :n]
Columns(buf, n) == [k \in 1..Len(buf) |-> Slice(buf[k], 0, n)]

\* the flag taken from the first walk alone
SomeWalkMoves_first_walk(cur, nxt) == cur[1] # nxt[1]

\* (idx_cur_nodes_subg == idx_next_nodes_subg).long().sum() < nb_paths (163, 190)
SomeWalkMoves(cur, nxt) ==
    Cardinality({k \in 1..Len(cur) : cur[k] = nxt[k]}) < Len(cur)

\* lines 165-168 / 192-195: flag_cycles enters the sum as True = 1
CycleFlag(buf, steps, flag) ==
    IF steps % CycleCheckPeriod # 0 THEN flag
    ELSE (IF flag THEN 1 ELSE 0)
         + Cardinality({k \in 1..Len(buf) : Cardinality(Range(buf[k])) < steps})
         < Len(buf)

-----------------------------------------------------------------------------
(* Candidate selection: algorithms.py 80-91, 196-223 *)

\* paths_nodes (lines 196, 201): per path, the flipped backward columns then
\* the forward columns
PathsNodes(backward, forward, steps) ==
    [k \in 1..Len(forward) |-> Reverse(Slice(backward[k], 0, steps)) \o forward[k]]

\* compute_walks (lines 80-91): the cleaned walk of every path
compute_walks(paths_nodes) ==
    [k \in 1..Len(paths_nodes) |-> extract_non_duplicate_walk(paths_nodes[k])]

\* torch.argmax(walks_length) (line 210): first index of the greatest length
ArgMax(walks) ==
    SetMin({k \in 1..Len(walks) : \A j \in 1..Len(walks) : Len(walks[j]) <= Len(walks[k])})

\* the computed strand listed a second time
OppositeStrand_same_strand(walk) == walk

\* [n^1 for n in walk] (line 215)
OppositeStrand(walk) == [i \in 1..Len(walk) |-> Partner(walk[i])]

\* the stop test of lines 221-222
StopDecoding(len_best_walk, threshold) == len_best_walk < threshold

-----------------------------------------------------------------------------
(* parallel_greedy_decoding *)

NoRouting ==
    /\ keep_node_idx = <<>>
    /\ src_init_edges = <<>>
    /\ dst_init_edges = <<>>
    /\ dst_greedy_forward = <<>>
    /\ dst_greedy_backward = <<>>
    /\ idx_cur_nodes_subg = <<>>
    /\ paths_nodes_forward = <<>>
    /\ paths_nodes_backward = <<>>
    /\ nb_steps = 0
    /\ flag_dead_ends = TRUE
    /\ flag_cycles = TRUE

\* the routing artifacts of an iteration are dropped
DropRouting ==
    /\ keep_node_idx' = <<>>
    /\ src_init_edges' = <<>>
    /\ dst_init_edges' = <<>>
    /\ dst_greedy_forward' = <<>>
    /\ dst_greedy_backward' = <<>>
    /\ idx_cur_nodes_subg' = <<>>
    /\ paths_nodes_forward' = <<>>
    /\ paths_nodes_backward' = <<>>
    /\ nb_steps' = 0
    /\ flag_dead_ends' = TRUE
    /\ flag_cycles' = TRUE

SanIdle == walk_in = <<>> /\ walk_out = <<>> /\ san_pc = "idle"

\* dfs_gt_graph is not running
GtIdle ==
    /\ gt_pc = "idle"
    /\ read_start = <<>>
    /\ read_end = <<>>
    /\ read_strand = <<>>
    /\ last_pos = 0
    /\ gt_all_walks = <<>>
    /\ correct_nodes = {}
    /\ correct_edges = {}
    /\ neg_str_correct_edges = {}
    /\ pos_str_edges = {}
    /\ neg_str_edges = {}

\* get_components is not running
CompIdle ==
    /\ comp_pc = "idle"
    /\ components = <<>>
    /\ changes = FALSE

\* dfs is not running on its own
DfsIdle ==
    /\ dfs_pc = "idle"
    /\ dfs_start = 0
    /\ dfs_avoid = {}
    /\ dfs_stack = <<>>
    /\ dfs_visited = {}
    /\ dfs_path = <<>>
    /\ dfs_max_node = 0
    /\ dfs_max_value = 0
    /\ dfs_order = <<>>
    /\ dfs_walk = <<>>

\* dfs_gt_neurips_graph is not running
SweepIdle ==
    /\ sweep_pc = "idle"
    /\ all_nodes = {}
    /\ largest_visited = 0
    /\ sweep_all_walks = <<>>
    /\ sweep_all_visited = {}
    /\ pos_correct_edges = {}
    /\ neg_correct_edges = {}
    /\ sweep_walk = <<>>

TruthIdle == neighbors = <<>> /\ GtIdle /\ CompIdle /\ DfsIdle /\ SweepIdle

\* the path-graph scenario: edges 0->1->2->3->4->5 on the nodes 0..5
PathEdges == {<<0, 1>>, <<1, 2>>, <<2, 3>>, <<3, 4>>, <<4, 5>>}

\* The call: a graph of n_original_g nodes with scored edges, nb_paths and
\* len_threshold.  The graph is one of the input graphs on 2 * NumPairs nodes
\* (the more paths, the smaller the graph), or the path graph with equal
\* scores, as drawn or with the mirrored edges added.
Init ==
    /\ SanIdle
    /\ TruthIdle
    /\ pc = "entry"
    /\ nb_paths \in 1..MaxPaths
    /\ \/ /\ n_original_g = 2 * NumPairs
          /\ edges \in InputGraphs(MaxEdges + 1 - nb_paths)
          /\ score \in ScoreVectors(edges)
       \/ /\ n_original_g = Cardinality(PathEdges) + 1
          /\ edges \in {PathEdges, MirrorClosure(PathEdges)}
          /\ score = [e \in edges |-> 1]
    /\ len_threshold \in 1..MaxLenThreshold
    /\ all_walks = <<>>
    /\ all_walks_both_strands = <<>>
    /\ idx_contig = 0
    /\ NoRouting
    /\ raised_at = 0

\* lines 98-109: self-loops replaced by sentinel self-loops of score -inf
Entry ==
    /\ pc = "entry"
    /\ edges' = remove_self_loop(edges) \cup SelfLoops
    /\ score' = [e \in remove_self_loop(edges) \cup SelfLoops |->
                    IF e[1] = e[2] THEN NegInf ELSE score[e]]
    /\ pc' = "seeding"
    /\ UNCHANGED <<n_original_g, nb_paths, len_threshold, all_walks, all_walks_both_strands,
                   idx_contig,
                   keep_node_idx, src_init_edges, dst_init_edges, dst_greedy_forward,
                   dst_greedy_backward, idx_cur_nodes_subg, paths_nodes_forward,
                   paths_nodes_backward, nb_steps, flag_dead_ends, flag_cycles, raised_at>>
    /\ UNCHANGED <<san_vars, truth_vars>>

\* a statement raises: the call ends without a result
Raise(line) ==
    /\ pc' = "error"
    /\ raised_at' = line

\* lines 112-157: next outer iteration; sub-graph, seed edges, forward table and
\* forward buffer
Seeding ==
    /\ pc = "seeding"
    /\ idx_contig' = idx_contig + 1
    /\ UNCHANGED <<n_original_g, edges, score, nb_paths, len_threshold, all_walks, all_walks_both_strands,
                   dst_greedy_backward, paths_nodes_backward>>
    /\ UNCHANGED <<san_vars, truth_vars>>
    /\ nb_steps' = 0
    /\ flag_dead_ends' = TRUE
    /\ flag_cycles' = TRUE
    /\ IF ~(RemoveNodeIdx(all_walks_both_strands) \subseteq Nodes)
       THEN \* keep_node_idx[remove_node_idx] = 0 with an index past the last node
            /\ Raise(124)
            /\ UNCHANGED <<keep_node_idx, src_init_edges, dst_init_edges,
                           dst_greedy_forward, idx_cur_nodes_subg, paths_nodes_forward>>
       ELSE LET keep == KeepNodeIdx(all_walks_both_strands)
                sub_edges == SubEdges(edges, keep)
            IN  /\ keep_node_idx' = keep
                /\ IF sub_edges = {}
                   THEN \* Categorical over an empty probability row
                        /\ Raise(141)
                        /\ UNCHANGED <<src_init_edges, dst_init_edges, dst_greedy_forward,
                                       idx_cur_nodes_subg, paths_nodes_forward>>
                   ELSE \E idx_edges \in [1..nb_paths -> sub_edges] :
                            /\ src_init_edges' = [k \in 1..nb_paths |-> idx_edges[k][1]]
                            /\ dst_init_edges' = [k \in 1..nb_paths |-> idx_edges[k][2]]
                            /\ dst_greedy_forward' = <<>>
                            /\ idx_cur_nodes_subg' = [k \in 1..nb_paths |-> idx_edges[k][2]]
                            /\ IF HalfSize(Len(keep)) = 0
                               THEN \* column 0 of a buffer without columns
                                    /\ Raise(157)
                                    /\ UNCHANGED paths_nodes_forward
                               ELSE /\ paths_nodes_forward' =
                                          InitBuffer(nb_paths, HalfSize(Len(keep)), keep,
                                                     [k \in 1..nb_paths |-> idx_edges[k][2]])
                                    /\ pc' = "forward"
                                    /\ UNCHANGED raised_at

\* the while test of lines 158 and 185
LoopContinues == flag_dead_ends /\ flag_cycles /\ nb_steps < HalfSize(Len(keep_node_idx))

\* lines 159-168: one round of the forward phase
ForwardStep ==
    /\ pc = "forward"
    /\ LoopContinues
    /\ nb_steps' = nb_steps + 1
    /\ \E table \in ReadTable(dst_greedy_forward, idx_cur_nodes_subg,
                              [i \in Range(idx_cur_nodes_subg) |->
                                  BestSuccessors(edges, score, keep_node_idx, i)]) :
         LET idx_next_nodes_subg == [k \in 1..nb_paths |-> table[idx_cur_nodes_subg[k]]]
         IN  /\ dst_greedy_forward' = table
             /\ IF nb_steps + 1 >= HalfSize(Len(keep_node_idx))
                THEN \* paths_nodes_forward[:, nb_steps] past the last column
                     /\ Raise(162)
                     /\ UNCHANGED <<paths_nodes_forward, flag_dead_ends, idx_cur_nodes_subg,
                                    flag_cycles>>
                ELSE /\ paths_nodes_forward' = WriteColumn(paths_nodes_forward, nb_steps + 1, keep_node_idx,
                                              idx_next_nodes_subg)
                     /\ flag_dead_ends' =
                            SomeWalkMoves(idx_cur_nodes_subg, idx_next_nodes_subg)
                     /\ idx_cur_nodes_subg' = idx_next_nodes_subg
                     /\ flag_cycles' = CycleFlag(paths_nodes_forward', nb_steps + 1, flag_cycles)
                     /\ UNCHANGED <<pc, raised_at>>
    /\ UNCHANGED <<n_original_g, edges, score, nb_paths, len_threshold, all_walks, all_walks_both_strands,
                   idx_contig, keep_node_idx, src_init_edges, dst_init_edges,
                   dst_greedy_backward, paths_nodes_backward>>
    /\ UNCHANGED <<san_vars, truth_vars>>

\* lines 169-184: the forward loop is left; backward table and backward buffer
ForwardExit ==
    /\ pc = "forward"
    /\ ~LoopContinues
    /\ paths_nodes_forward' = Columns(paths_nodes_forward, nb_steps)
    /\ dst_greedy_backward' = <<>>
    /\ idx_cur_nodes_subg' = src_init_edges
    /\ flag_dead_ends' = TRUE
    /\ flag_cycles' = TRUE
    /\ nb_steps' = 0
    /\ paths_nodes_backward' = InitBuffer(nb_paths, HalfSize(Len(keep_node_idx)),
                                          keep_node_idx, src_init_edges)
    /\ pc' = "backward"
    /\ UNCHANGED <<n_original_g, edges, score, nb_paths, len_threshold, all_walks, all_walks_both_strands,
                   idx_contig, keep_node_idx, src_init_edges, dst_init_edges,
                   dst_greedy_forward, raised_at>>
    /\ UNCHANGED <<san_vars, truth_vars>>

\* lines 186-195: one round of the backward phase
BackwardStep ==
    /\ pc = "backward"
    /\ LoopContinues
    /\ nb_steps' = nb_steps + 1
    /\ \E table \in ReadTable(dst_greedy_backward, idx_cur_nodes_subg,
                              [i \in Range(idx_cur_nodes_subg) |->
                                  BestPredecessors(edges, score, keep_node_idx, i)]) :
         LET idx_next_nodes_subg == [k \in 1..nb_paths |-> table[idx_cur_nodes_subg[k]]]
         IN  /\ dst_greedy_backward' = table
             /\ IF nb_steps + 1 >= HalfSize(Len(keep_node_idx))
                THEN \* paths_nodes_backward[:, nb_steps] past the last column
                     /\ Raise(189)
                     /\ UNCHANGED <<paths_nodes_backward, flag_dead_ends, idx_cur_nodes_subg,
                                    flag_cycles>>
                ELSE /\ paths_nodes_backward' = WriteColumn(paths_nodes_backward, nb_steps + 1, keep_node_idx,
                                              idx_next_nodes_subg)
                     /\ flag_dead_ends' =
                            SomeWalkMoves(idx_cur_nodes_subg, idx_next_nodes_subg)
                     /\ idx_cur_nodes_subg' = idx_next_nodes_subg
                     /\ flag_cycles' = CycleFlag(paths_nodes_backward', nb_steps + 1, flag_cycles)
                     /\ UNCHANGED <<pc, raised_at>>
    /\ UNCHANGED <<n_original_g, edges, score, nb_paths, len_threshold, all_walks, all_walks_both_strands,
                   idx_contig, keep_node_idx, src_init_edges, dst_init_edges,
                   dst_greedy_forward, paths_nodes_forward>>
    /\ UNCHANGED <<san_vars, truth_vars>>

\* lines 196-223: the backward loop is left; candidates are cleaned, the longest
\* is appended to the running lists, then the stop test
Selecting ==
    /\ pc = "backward"
    /\ ~LoopContinues
    /\ LET paths_nodes == PathsNodes(paths_nodes_backward, paths_nodes_forward, nb_steps)
       IN  IF \E k \in 1..nb_paths : extract_raises(paths_nodes[k])
           THEN /\ Raise(49)
                /\ UNCHANGED <<all_walks, all_walks_both_strands, keep_node_idx,
                               src_init_edges, dst_init_edges, dst_greedy_forward,
                               dst_greedy_backward, idx_cur_nodes_subg,
                               paths_nodes_forward, paths_nodes_backward, nb_steps,
                               flag_dead_ends, flag_cycles>>
           ELSE LET walks == compute_walks(paths_nodes)
                    idx_max == ArgMax(walks)
                IN  /\ all_walks' = Append(all_walks, walks[idx_max])
                    /\ all_walks_both_strands' =
                           all_walks_both_strands
                               \o <<walks[idx_max], OppositeStrand(walks[idx_max])>>
                    /\ pc' = IF StopDecoding(Len(walks[idx_max]), len_threshold)
                             THEN "done" ELSE "seeding"
                    /\ UNCHANGED raised_at
                    /\ DropRouting
    /\ UNCHANGED <<n_original_g, edges, score, nb_paths, len_threshold, idx_contig>>
    /\ UNCHANGED <<san_vars, truth_vars>>

Next ==
    \/ Entry
    \/ Seeding
    \/ ForwardStep
    \/ ForwardExit
    \/ BackwardStep
    \/ Selecting

Spec == Init /\ [][Next]_vars

-----------------------------------------------------------------------------
(* A call long enough for the periodic cycle check of lines 165-168, 192-195 *)

\* a path 0 -> 2 -> 4 -> .. of CycleCheckPeriod edges on the even nodes
LongPathEdges == {<<2 * k, 2 * k + 2>> : k \in 0..(CycleCheckPeriod - 1)}

\* The call with one path on the long path and its mirrored path, equal
\* scores, on just the nodes of the two paths; len_threshold is the node count,
\* which no walk reaches, so the call stops after its first iteration.
CycleInit ==
    /\ SanIdle
    /\ TruthIdle
    /\ pc = "entry"
    /\ n_original_g = 2 * (CycleCheckPeriod + 1)
    /\ nb_paths = 1
    /\ edges = MirrorClosure(LongPathEdges)
    /\ score = [e \in edges |-> 1]
    /\ len_threshold = n_original_g
    /\ all_walks = <<>>
    /\ all_walks_both_strands = <<>>
    /\ idx_contig = 0
    /\ NoRouting
    /\ raised_at = 0

CycleSpec == CycleInit /\ [][Next]_vars

-----------------------------------------------------------------------------
(* The sanitizer called on its own *)

DecIdle ==
    /\ pc = "idle"
    /\ n_original_g = 0
    /\ edges = {}
    /\ score = <<>>
    /\ nb_paths = 0
    /\ len_threshold = 0
    /\ all_walks = <<>>
    /\ all_walks_both_strands = <<>>
    /\ idx_contig = 0
    /\ NoRouting
    /\ raised_at = 0

\* raw walks of the documented scenarios, with node values past SanMaxNode
ScenarioWalks == {<<5, 3, 3, 2, 4, 5>>}

\* a call of extract_non_duplicate_walk on any walk over 0..SanMaxNode of
\* length 0..SanMaxLen, or on a scenario walk
SanInit ==
    /\ DecIdle
    /\ TruthIdle
    /\ walk_in \in SeqsUpTo(0..SanMaxNode, SanMaxLen) \cup ScenarioWalks
    /\ walk_out = <<>>
    /\ san_pc = "call"

\* lines 43-77 on a walk the function returns on
SanReturn ==
    /\ san_pc = "call"
    /\ ~extract_raises(walk_in)
    /\ walk_out' = extract_non_duplicate_walk(walk_in)
    /\ san_pc' = "returned"
    /\ UNCHANGED <<walk_in, dec_vars, truth_vars>>

\* lines 43-49 on a one-element walk
SanRaise ==
    /\ san_pc = "call"
    /\ extract_raises(walk_in)
    /\ san_pc' = "raised"
    /\ UNCHANGED <<walk_in, walk_out, dec_vars, truth_vars>>

SanNext == SanReturn \/ SanRaise

SanSpec == SanInit /\ [][SanNext]_vars

-----------------------------------------------------------------------------
(* The ground-truth walk builder dfs_gt_graph with dfs, get_start and      *)
(* get_correct_edges.  A read is a pair of nodes 2k (strand +1) and 2k + 1 *)
(* (strand -1) that carry the read's interval on the reference.  The edge  *)
(* dictionary edges maps a pair (src, dst) to an edge id; it is injective, *)
(* so an edge id is written as the pair it stands for.                     *)

\* number of reads of the graphs given to the walk builder
GtPairs == 3

\* largest reference coordinate of a read
GtMaxPos == 4

\* largest number of positive-strand edges
GtMaxEdges == 3

GtNodes == 0..(2 * GtPairs - 1)

\* intervals a read can cover
GtIntervals == {iv \in (0..GtMaxPos) \X (0..GtMaxPos) : iv[1] < iv[2]}

\* overlap edges between two different positive-strand nodes
GtEdgePool == {<<2 * i, 2 * j>> : i, j \in 0..(GtPairs - 1)} \ {<<n, n>> : n \in GtNodes}

\* value of path[start]
None == 0 - 1

\* tmp left in the order of the successor list
SortByStartDescending_unsorted(tmp) == tmp

\* tmp.sort(key=lambda x: -read_start[x]): stable, by decreasing read_start
RECURSIVE SortByStartDescending(_)
SortByStartDescending(tmp) ==
    IF tmp = <<>> THEN <<>>
    ELSE LET head == SortByStartDescending(SubSeq(tmp, 1, Len(tmp) - 1))
             x == tmp[Len(tmp)]
             k == Cardinality({i \in 1..Len(head) : read_start[head[i]] >= read_start[x]})
         IN  SubSeq(head, 1, k) \o <<x>> \o SubSeq(head, k + 1, Len(head))

\* unvisited successors of either strand that start inside the current read
OverlappingSuccessors_any_strand(current, visited) ==
    SelectSeq(neighbors[current],
              LAMBDA node : /\ node \notin visited
                            /\ ~(read_start[node] > read_end[current])
                            /\ ~(read_start[node] < read_start[current]))

\* first candidate list of dfs: unvisited positive-strand successors that start
\* inside the current read
OverlappingSuccessors(current, visited) ==
    SelectSeq(neighbors[current],
              LAMBDA node : /\ node \notin visited
                            /\ read_strand[node] # 0 - 1
                            /\ ~(read_start[node] > read_end[current])
                            /\ ~(read_start[node] < read_start[current]))

\* second candidate list of dfs: unvisited positive-strand successors that start
\* after the current read ends
GapSuccessors(current, visited) ==
    SelectSeq(neighbors[current],
              LAMBDA node : /\ node \notin visited
                            /\ read_strand[node] # 0 - 1
                            /\ ~(read_start[node] < read_start[current])
                            /\ read_start[node] > read_end[current])

\* the list tmp that one iteration of the dfs loop pushes, in push order
Pushed(current, visited) ==
    LET tmp == OverlappingSuccessors(current, visited)
    IN  SortByStartDescending(IF Len(tmp) = 0 THEN GapSuccessors(current, visited) ELSE tmp)

\* the test that moves max_node, passed by an equal read_end as well
ReachesFurther_or_equal(end, max_value) == end >= max_value

\* line 552: the test that moves max_node to the current node
ReachesFurther(end, max_value) == end > max_value

\* the while loop of dfs; stack grows to the right, pop takes the last element
RECURSIVE dfs_loop(_, _, _, _, _)
dfs_loop(stack, visited, path, max_node, max_value) ==
    IF stack = <<>>
    THEN [visited |-> visited, path |-> path, max_node |-> max_node]
    ELSE LET current == stack[Len(stack)]
             rest == SubSeq(stack, 1, Len(stack) - 1)
         IN  IF current \in visited
             THEN dfs_loop(rest, visited, path, max_node, max_value)
             ELSE LET further == ReachesFurther(read_end[current], max_value)
                      seen == visited \cup {current}
                      tmp == Pushed(current, seen)
                      path2 == [n \in DOMAIN path \cup Range(tmp) |->
                                   IF n \in Range(tmp) THEN current ELSE path[n]]
                  IN  dfs_loop(rest \o tmp, seen, path2,
                               IF further THEN current ELSE max_node,
                               IF further THEN read_end[current] ELSE max_value)

\* the finally block of dfs: follow path from max_node back to start
RECURSIVE WalkBack(_, _)
WalkBack(path, current) ==
    IF current = None THEN <<>> ELSE WalkBack(path, path[current]) \o <<current>>

dfs(start, avoid) ==
    LET r == dfs_loop(<<start>>, avoid, [n \in {start} |-> None], start, read_end[start])
    IN  [walk |-> WalkBack(r.path, r.max_node), visited |-> r.visited]

\* nodes among which get_start takes the smallest read_start
StartCandidates(strand, last) ==
    {n \in DOMAIN read_start : read_strand[n] = strand /\ read_start[n] > last}

get_start(strand, last) ==
    LET start_pos == SetMin({read_start[n] : n \in StartCandidates(strand, last)})
    IN  [start_pos |-> start_pos,
         start_idx |-> SetMin({n \in DOMAIN read_start : read_start[n] = start_pos})]

\* key under which get_correct_edges looks up the negative-strand edge
NegStrandKey_not_swapped(src, dst) == <<Partner(src), Partner(dst)>>

\* key under which get_correct_edges looks up the negative-strand edge
NegStrandKey(src, dst) == <<Partner(dst), Partner(src)>>

\* positions j > i of walk that the inner loop of get_correct_edges reaches
\* from position i before it breaks
OverlapRun(walk, i) ==
    {j \in (i + 1)..Len(walk) :
        \A m \in (i + 1)..j : /\ walk[m] \in Range(neighbors[walk[i]])
                              /\ read_start[walk[m]] < read_end[walk[i]]}

get_correct_edges(walk) ==
    LET hits == {ij \in (1..Len(walk)) \X (1..Len(walk)) :
                    ij[1] < Len(walk) /\ ij[2] \in OverlapRun(walk, ij[1])}
    IN  [pos_str_edges |-> {<<walk[ij[1]], walk[ij[2]]>> : ij \in hits},
         neg_str_edges |-> {NegStrandKey(walk[ij[1]], walk[ij[2]]) : ij \in hits}]

\* threshold of dfs_gt_graph: the largest read_start of the positive strand
Threshold == SetMax({read_start[n] : n \in {m \in DOMAIN read_start : read_strand[m] = 1}})

\* last_pos > 0.99 * threshold, in integers
CoverageReached(pos, threshold) == 100 * pos > 99 * threshold

\* neg_str_correct_nodes as dfs_gt_graph computes it on return
NegStrCorrectNodes == {Partner(n) : n \in correct_nodes}

\* position in dfs_gt_graph is the head of the while loop
GtLoop ==
    /\ gt_pc = "loop"
    /\ last_pos = 0 - 1
    /\ gt_all_walks = <<>>
    /\ correct_nodes = {}
    /\ correct_edges = {}
    /\ neg_str_correct_edges = {}
    /\ pos_str_edges = {}
    /\ neg_str_edges = {}

GtInit ==
    /\ SanIdle
    /\ DecIdle
    /\ CompIdle
    /\ DfsIdle
    /\ SweepIdle
    /\ \E reads \in [0..(GtPairs - 1) -> GtIntervals], E \in SubsetsUpTo(GtEdgePool, GtMaxEdges) :
          /\ read_start = [n \in GtNodes |-> reads[n \div 2][1]]
          /\ read_end = [n \in GtNodes |-> reads[n \div 2][2]]
          /\ read_strand = [n \in GtNodes |-> IF n % 2 = 0 THEN 1 ELSE 0 - 1]
          /\ neighbors = [n \in GtNodes |->
                             SortedSeq({e[2] : e \in {d \in MirrorClosure(E) : d[1] = n}})]
    /\ GtLoop

\* one iteration of the while loop of dfs_gt_graph, the return included.
\* get_start finds a start in every iteration: the loop is left as soon as
\* last_pos passes 0.99 * threshold, and below that a positive-strand read
\* starts after last_pos.  The edge dictionary holds every pair the walk
\* looks up, since the graph holds the mirror of each of its edges.
GtWalk ==
    /\ gt_pc = "loop"
    /\ StartCandidates(1, last_pos) # {}
    /\ LET start == get_start(1, last_pos)
           walk == dfs(start.start_idx, {}).walk
           found == get_correct_edges(walk)
           end_pos == read_end[walk[Len(walk)]]
       IN  /\ gt_all_walks' = Append(gt_all_walks, walk)
           /\ correct_nodes' = correct_nodes \cup Range(walk)
           /\ pos_str_edges' = found.pos_str_edges
           /\ neg_str_edges' = found.neg_str_edges
           /\ correct_edges' = correct_edges \cup found.pos_str_edges
           /\ neg_str_correct_edges' = {} \cup found.neg_str_edges
           /\ last_pos' = end_pos
           /\ gt_pc' = IF CoverageReached(end_pos, Threshold) THEN "returned" ELSE "loop"
    /\ UNCHANGED <<san_vars, dec_vars, comp_vars, dfs_vars, sweep_vars, neighbors, read_start,
                   read_end, read_strand>>

GtNext == GtWalk

GtSpec == GtInit /\ [][GtNext]_vars

-----------------------------------------------------------------------------
(* The component builder get_components with bfs_visit.  The argument      *)
(* preds is the predecessor dictionary of the same graph as neighbors.     *)

\* number of nodes of the graphs given to get_components
CompNumNodes == 5

\* largest number of edges of these graphs
CompMaxEdges == 5

CompNodes == 0..(CompNumNodes - 1)

CompEdgePool == (CompNodes \X CompNodes) \ {<<n, n>> : n \in CompNodes}

\* preds[n]
Preds(n) == {m \in DOMAIN neighbors : n \in Range(neighbors[m])}

\* the list starts: nodes without predecessor, in node order
Starts == SortedSeq({n \in DOMAIN neighbors : Cardinality(Preds(n)) = 0})

\* the while loop of bfs_visit; popleft takes the first element of queue
RECURSIVE bfs_loop(_, _, _)
bfs_loop(queue, visited, all_visited) ==
    IF queue = <<>> THEN visited
    ELSE LET current == Head(queue)
         IN  IF current \in visited \/ current \in all_visited
             THEN bfs_loop(Tail(queue), visited, all_visited)
             ELSE bfs_loop(Tail(queue) \o neighbors[current], visited \cup {current},
                           all_visited)

bfs_visit(start, all_visited) == bfs_loop(<<start>>, {}, all_visited)

\* all_visited while the components of the first starts are in the list
AllVisited == UNION Range(components)

\* sorted(components, key=lambda x: len(x)): stable, by increasing size
RECURSIVE SortByLen(_)
SortByLen(comps) ==
    IF comps = <<>> THEN <<>>
    ELSE LET head == SortByLen(SubSeq(comps, 1, Len(comps) - 1))
             x == comps[Len(comps)]
             k == Cardinality({i \in 1..Len(head) : Cardinality(head[i]) <= Cardinality(x)})
         IN  SubSeq(head, 1, k) \o <<x>> \o SubSeq(head, k + 1, Len(head))

\* the test on a joint node that clears skip
LiveJoint_always(joint) == TRUE

\* the test on a joint node that clears skip
LiveJoint(joint) == Len(neighbors[joint]) > 0

\* some node of comp has a successor in larger_comp that passes the joint test
Joins(comp, larger_comp) ==
    \E node \in comp : \E joint \in Range(neighbors[node]) \cap larger_comp : LiveJoint(joint)

\* positions of the sorted list that comp = sorted[1] can be merged with
MergeTargets(sorted) == {i \in 2..Len(sorted) : Joins(sorted[1], sorted[i])}

\* the list after components.remove(comp), components.remove(larger_comp) and
\* components.append(new_comp), comp being sorted[1] and larger_comp sorted[i]
Merged(sorted, i) ==
    SelectSeq(sorted, LAMBDA c : c # sorted[1] /\ c # sorted[i])
        \o <<sorted[1] \cup sorted[i]>>

CompInit ==
    /\ SanIdle
    /\ DecIdle
    /\ GtIdle
    /\ DfsIdle
    /\ SweepIdle
    /\ \E E \in SubsetsUpTo(CompEdgePool, CompMaxEdges) :
          neighbors = [n \in CompNodes |-> SortedSeq({e[2] : e \in {d \in E : d[1] = n}})]
    /\ components = <<>>
    /\ comp_pc = IF Len(Starts) = 0 THEN "merge" ELSE "visit"
    /\ changes = (Len(Starts) = 0)

\* one round of the loop over starts; after the last one, changes = True
CompVisit ==
    /\ comp_pc = "visit"
    /\ LET start == Starts[Len(components) + 1]
           comp == bfs_visit(start, AllVisited)
       IN  components' = Append(components, comp)
    /\ comp_pc' = IF Len(components') = Len(Starts) THEN "merge" ELSE "visit"
    /\ changes' = (Len(components') = Len(Starts))
    /\ UNCHANGED <<san_vars, dec_vars, gt_vars, dfs_vars, sweep_vars, neighbors>>

\* one round of the while loop
CompMergePass ==
    /\ comp_pc = "merge"
    /\ changes
    /\ components # <<>>
    /\ LET sorted == SortByLen(components)
       IN  IF MergeTargets(sorted) = {}
           THEN /\ components' = sorted
                /\ changes' = FALSE
           ELSE /\ components' = Merged(sorted, SetMin(MergeTargets(sorted)))
                /\ changes' = TRUE
    /\ UNCHANGED <<san_vars, dec_vars, gt_vars, dfs_vars, sweep_vars, neighbors, comp_pc>>

\* comp = components[0] on an empty list
CompRaise ==
    /\ comp_pc = "merge"
    /\ changes
    /\ components = <<>>
    /\ comp_pc' = "raised"
    /\ UNCHANGED <<san_vars, dec_vars, gt_vars, dfs_vars, sweep_vars, neighbors, components,
                   changes>>

CompReturn ==
    /\ comp_pc = "merge"
    /\ ~changes
    /\ comp_pc' = "returned"
    /\ UNCHANGED <<san_vars, dec_vars, gt_vars, dfs_vars, sweep_vars, neighbors, components,
                   changes>>

CompNext == CompVisit \/ CompMergePass \/ CompRaise \/ CompReturn

CompSpec == CompInit /\ [][CompNext]_vars

-----------------------------------------------------------------------------
(* dfs run on its own, one round of its while loop at a time.  The graphs  *)
(* have DfsPairs reads; an edge joins a positive-strand node to a positive- *)
(* strand node of a later read, or node 0 to a negative-strand node, and   *)
(* the graph holds the mirror of each edge.  The search starts at node 0.  *)

\* number of reads of the graphs given to dfs
DfsPairs == 4

\* largest reference coordinate of these reads
DfsMaxPos == 3

\* largest number of edges, mirrored edges not counted
DfsMaxEdges == 4

DfsNodes == 0..(2 * DfsPairs - 1)

DfsIntervals == {iv \in (0..DfsMaxPos) \X (0..DfsMaxPos) : iv[1] < iv[2]}

DfsEdgePool ==
    {e \in DfsNodes \X DfsNodes :
        /\ e[1] % 2 = 0
        /\ e[1] \div 2 < e[2] \div 2
        /\ e[2] % 2 = 0 \/ e[1] = 0}

\* the sets given as avoid: nothing, or a node an earlier search visited
DfsAvoidSets == {{}, {4}}

\* gt_pc and the loop variables of dfs_gt_graph at rest
GtLoopIdle ==
    /\ gt_pc = "idle"
    /\ last_pos = 0
    /\ gt_all_walks = <<>>
    /\ correct_nodes = {}
    /\ correct_edges = {}
    /\ neg_str_correct_edges = {}
    /\ pos_str_edges = {}
    /\ neg_str_edges = {}

\* lines 534-541: the state of dfs before its loop
DfsEntry(start, avoid) ==
    /\ dfs_pc = "loop"
    /\ dfs_start = start
    /\ dfs_avoid = avoid
    /\ dfs_stack = <<start>>
    /\ dfs_visited = avoid
    /\ dfs_path = [n \in {start} |-> None]
    /\ dfs_max_node = start
    /\ dfs_max_value = read_end[start]
    /\ dfs_order = <<>>
    /\ dfs_walk = <<>>

DfsInit ==
    /\ SanIdle
    /\ DecIdle
    /\ CompIdle
    /\ GtLoopIdle
    /\ SweepIdle
    /\ \E reads \in [0..(DfsPairs - 1) -> DfsIntervals], E \in SubsetsUpTo(DfsEdgePool, DfsMaxEdges) :
          /\ read_start = [n \in DfsNodes |-> reads[n \div 2][1]]
          /\ read_end = [n \in DfsNodes |-> reads[n \div 2][2]]
          /\ read_strand = [n \in DfsNodes |-> IF n % 2 = 0 THEN 1 ELSE 0 - 1]
          /\ neighbors = [n \in DfsNodes |->
                             SortedSeq({e[2] : e \in {d \in MirrorClosure(E) : d[1] = n}})]
    /\ \E avoid \in DfsAvoidSets : DfsEntry(0, avoid)

\* lines 545-583: one round of the while loop
DfsPop ==
    /\ dfs_pc = "loop"
    /\ dfs_stack # <<>>
    /\ LET current == dfs_stack[Len(dfs_stack)]
           rest == SubSeq(dfs_stack, 1, Len(dfs_stack) - 1)
       IN  IF current \in dfs_visited
           THEN /\ dfs_stack' = rest
                /\ UNCHANGED <<dfs_visited, dfs_path, dfs_max_node, dfs_max_value, dfs_order>>
           ELSE LET further == ReachesFurther(read_end[current], dfs_max_value)
                    tmp == Pushed(current, dfs_visited \cup {current})
                IN  /\ dfs_max_value' = IF further THEN read_end[current] ELSE dfs_max_value
                    /\ dfs_max_node' = IF further THEN current ELSE dfs_max_node
                    /\ dfs_visited' = dfs_visited \cup {current}
                    /\ dfs_order' = Append(dfs_order, current)
                    /\ dfs_stack' = rest \o tmp
                    /\ dfs_path' = [n \in DOMAIN dfs_path \cup Range(tmp) |->
                                       IF n \in Range(tmp) THEN current ELSE dfs_path[n]]
    /\ UNCHANGED <<dfs_pc, dfs_start, dfs_avoid, dfs_walk>>
    /\ UNCHANGED <<san_vars, dec_vars, gt_vars, comp_vars, sweep_vars, neighbors>>

\* lines 589-597: the stack is empty, the walk is read off path
DfsReturn ==
    /\ dfs_pc = "loop"
    /\ dfs_stack = <<>>
    /\ dfs_walk' = WalkBack(dfs_path, dfs_max_node)
    /\ dfs_pc' = "returned"
    /\ UNCHANGED <<dfs_start, dfs_avoid, dfs_stack, dfs_visited, dfs_path, dfs_max_node,
                   dfs_max_value, dfs_order>>
    /\ UNCHANGED <<san_vars, dec_vars, gt_vars, comp_vars, sweep_vars, neighbors>>

DfsNext == DfsPop \/ DfsReturn

DfsSpec == DfsInit /\ [][DfsNext]_vars

-----------------------------------------------------------------------------
(* dfs_gt_neurips_graph (lines 662-700): seeds a dfs at the remaining
   positive-strand read of smallest read_start until a kept walk ends at the
   largest read_end or no positive-strand read remains.  One action per
   iteration of its while loop.  The reads are numbered by non-decreasing
   read_start, then read_end, and the edges lead from a positive-strand read
   to one with a higher number, mirrored. *)

SweepPairs == 5
SweepMaxPos == 3
SweepMaxEdges == 2

SweepNodes == 0..(2 * SweepPairs - 1)

SweepIntervals == {iv \in (0..SweepMaxPos) \X (0..SweepMaxPos) : iv[1] < iv[2]}

SweepLayouts ==
    {reads \in [0..(SweepPairs - 1) -> SweepIntervals] :
        \A i \in 0..(SweepPairs - 2) :
            \/ reads[i][1] < reads[i + 1][1]
            \/ reads[i][1] = reads[i + 1][1] /\ reads[i][2] <= reads[i + 1][2]}

SweepEdgePool == {e \in SweepNodes \X SweepNodes : e[1] % 2 = 0 /\ e[2] % 2 = 0 /\ e[1] < e[2]}

\* line 663: the nodes of the positive strand
PositiveNodes == {i \in DOMAIN read_strand : read_strand[i] = 1}

\* line 664: a positive-strand node of largest read_end; only its read_end is used
last_node == CHOOSE x \in PositiveNodes : \A y \in PositiveNodes : read_end[y] <= read_end[x]

\* line 672: min(all_nodes, key=read_start) returns one of the nodes of smallest
\* read_start, which one depends on the iteration order of the set
Seeds(nodes) == {x \in nodes : \A y \in nodes : read_start[x] <= read_start[y]}

\* line 674: the test that discards a walk
Discarded(walk, largest) == read_end[walk[Len(walk)]] < largest \/ Len(walk) = 1

\* the remaining nodes left as they are
Remaining_unchanged(nodes, visited) == nodes

\* lines 675 and 697: all_nodes - visited
Remaining(nodes, visited) == nodes \ visited

SweepInit ==
    /\ SanIdle
    /\ DecIdle
    /\ CompIdle
    /\ GtLoopIdle
    /\ DfsIdle
    /\ \E reads \in SweepLayouts, E \in SubsetsUpTo(SweepEdgePool, SweepMaxEdges) :
          /\ read_start = [n \in SweepNodes |-> reads[n \div 2][1]]
          /\ read_end = [n \in SweepNodes |-> reads[n \div 2][2]]
          /\ read_strand = [n \in SweepNodes |-> IF n % 2 = 0 THEN 1 ELSE 0 - 1]
          /\ neighbors = [n \in SweepNodes |->
                             SortedSeq({e[2] : e \in {d \in MirrorClosure(E) : d[1] = n}})]
    /\ sweep_pc = "loop"
    /\ all_nodes = PositiveNodes
    /\ largest_visited = 0 - 1
    /\ sweep_all_walks = <<>>
    /\ sweep_all_visited = {}
    /\ pos_correct_edges = {}
    /\ neg_correct_edges = {}
    /\ sweep_walk = <<>>

\* lines 671-698: one iteration of the while loop.  The edge dictionary holds
\* every pair get_correct_edges looks up, since the graph holds the mirror of
\* each of its edges.
SweepRound ==
    /\ sweep_pc = "loop"
    /\ all_nodes # {}
    /\ \E start \in Seeds(all_nodes) :
          LET r == dfs(start, sweep_all_visited)
              walk == r.walk
              visited == r.visited
              end_pos == read_end[walk[Len(walk)]]
              found == get_correct_edges(walk)
          IN  /\ sweep_walk' = walk
              /\ IF Discarded(walk, largest_visited)
                 THEN /\ all_nodes' = Remaining(all_nodes, visited)
                      /\ sweep_all_visited' = sweep_all_visited \cup visited
                      /\ UNCHANGED <<sweep_pc, largest_visited, sweep_all_walks,
                                     pos_correct_edges, neg_correct_edges>>
                 ELSE /\ largest_visited' = end_pos
                      /\ sweep_all_walks' = Append(sweep_all_walks, walk)
                      /\ pos_correct_edges' = pos_correct_edges \cup found.pos_str_edges
                      /\ neg_correct_edges' = neg_correct_edges \cup found.neg_str_edges
                      /\ IF end_pos = read_end[last_node]
                         THEN /\ sweep_pc' = "returned"
                              /\ UNCHANGED <<all_nodes, sweep_all_visited>>
                         ELSE /\ all_nodes' = Remaining(all_nodes, visited)
                              /\ sweep_all_visited' = sweep_all_visited \cup visited
                              /\ UNCHANGED sweep_pc
    /\ UNCHANGED <<san_vars, dec_vars, gt_vars, comp_vars, dfs_vars, neighbors>>

\* lines 671 and 700: the while test fails and the two edge sets are returned
SweepReturn ==
    /\ sweep_pc = "loop"
    /\ all_nodes = {}
    /\ sweep_pc' = "returned"
    /\ UNCHANGED <<all_nodes, largest_visited, sweep_all_walks, sweep_all_visited,
                   pos_correct_edges, neg_correct_edges, sweep_walk>>
    /\ UNCHANGED <<san_vars, dec_vars, gt_vars, comp_vars, dfs_vars, neighbors>>

SweepNext == SweepRound \/ SweepReturn

SweepSpec == SweepInit /\ [][SweepNext]_vars

-----------------------------------------------------------------------------
(* Claims about the sanitizer, checked under SanSpec *)

\* C2: whatever the input walk, the walk the sanitizer returns holds no node
\* value twice (it may be empty).
C2_OutputHasNoDuplicate == san_pc = "returned" => NoDuplicates(walk_out)

\* C2 witness: a walk with repeated values is cleaned into a non-empty walk
C2_Witness ==
    /\ san_pc = "returned"
    /\ ~NoDuplicates(walk_in)
    /\ walk_out # <<>>
    /\ Len(walk_out) < Len(walk_in)

SameValueBothSides(w) ==
    /\ IdxNonDuplicate(w) # {}
    /\ \A i \in SetMin(IdxNonDuplicate(w))..SetMax(IdxNonDuplicate(w)) :
           i \in IdxNonDuplicate(w)
    /\ \E i, j \in 1..Len(w) : /\ i < SetMin(IdxNonDuplicate(w))
                               /\ j > SetMax(IdxNonDuplicate(w))
                               /\ w[i] = w[j]

\* C10 as claimed: a walk with the same duplicated value on both sides of its
\* singleton central run, as [1,2,1], is returned empty.
C10_Claimed_FlankedWalkEmpty ==
    (san_pc = "returned" /\ SameValueBothSides(walk_in)) => walk_out = <<>>

\* a, c1, .., ck, a: a duplicate-free run c of k >= 1 values between two
\* occurrences of one other value a
FlankedOnce(w) ==
    /\ Len(w) >= 3
    /\ w[1] = w[Len(w)]
    /\ NoDuplicates(SubSeq(w, 1, Len(w) - 1))

\* C10 amended: for a walk a, c1, .., ck, a the sanitizer returns a, c1, .., ck:
\* the left flank takes a, the right flank finds a used up, and the length
\* equals the number of distinct values; [1,2,1] gives [1,2].
C10_FlankedWalkKeepsLeft ==
    (san_pc = "returned" /\ FlankedOnce(walk_in))
        => walk_out = SubSeq(walk_in, 1, Len(walk_in) - 1)

\* C10 witness: the walk [1,2,1] has been sanitized
C10_Witness ==
    /\ san_pc = "returned"
    /\ walk_in = <<1, 2, 1>>
    /\ walk_out = <<1, 2>>

\* C11 as claimed: the raw walk [5,3,3,2,4,5] is returned empty.
C11_Claimed_ScenarioWalkEmpty ==
    (san_pc = "returned" /\ walk_in = <<5, 3, 3, 2, 4, 5>>) => walk_out = <<>>

\* b, a, a, c1, .., ck, b: a doubled value a right before a duplicate-free run
\* c of k >= 1 values, between two occurrences of one other value b
DoubledBeforeRun(w) ==
    /\ Len(w) >= 5
    /\ w[1] = w[Len(w)]
    /\ w[2] = w[3]
    /\ NoDuplicates(SubSeq(w, 3, Len(w)))

\* C11 amended: for a walk b, a, a, c1, .., ck, b the sanitizer returns
\* a, c1, .., ck, b: the singletons c are one index range, the left flank takes
\* one a and stops at the second, the right flank takes b, and the length
\* equals the number of distinct values; [5,3,3,2,4,5] gives [3,2,4,5].
C11_DoubledWalkKeepsOneCopy ==
    (san_pc = "returned" /\ DoubledBeforeRun(walk_in))
        => walk_out = SubSeq(walk_in, 3, Len(walk_in))

\* C11 witness: the walk [5,3,3,2,4,5] has been sanitized
C11_Witness ==
    /\ san_pc = "returned"
    /\ walk_in = <<5, 3, 3, 2, 4, 5>>
    /\ walk_out = <<3, 2, 4, 5>>

-----------------------------------------------------------------------------
(* Claims about parallel_greedy_decoding, checked under Spec *)

\* the list the call returns, once it has returned
Returned == pc = "done"

\* nodes of walk w
WalkNodes(w) == Range(w)

\* the consumed-node set: every node listed in all_walks_both_strands
Consumed == UNION {Range(all_walks_both_strands[i]) : i \in 1..Len(all_walks_both_strands)}

\* C1: any two distinct walks of the list are node-disjoint and strand-closed:
\* no node of one walk, and no partner n XOR 1 of such a node, is in the other.
C1_WalksDisjointStrandClosed ==
    \A i, j \in 1..Len(all_walks) :
        i # j => \A n \in WalkNodes(all_walks[i]) :
                    /\ n \notin WalkNodes(all_walks[j])
                    /\ Partner(n) \notin WalkNodes(all_walks[j])

\* C1 witness: the call has returned two non-empty walks
C1_Witness ==
    /\ Returned
    /\ \E i, j \in 1..Len(all_walks) :
           i # j /\ all_walks[i] # <<>> /\ all_walks[j] # <<>>

\* C4 as claimed: every walk of the returned list has length >= len_threshold.
C4_Claimed_ReturnedWalksReachThreshold ==
    Returned => \A i \in 1..Len(all_walks) : Len(all_walks[i]) >= len_threshold

\* C5 as claimed: the returned list holds no empty walk.
C5_Claimed_NoEmptyWalkReturned ==
    Returned => \A i \in 1..Len(all_walks) : all_walks[i] # <<>>

\* no walk node with its partner in the same walk
StrandConsistent(w) == \A n \in WalkNodes(w) : Partner(n) \notin WalkNodes(w)

\* C6 as claimed: on a graph with the mirrored-edge invariant no accepted walk
\* holds a node together with its partner n XOR 1.
C6_Claimed_AcceptedWalksStrandConsistent ==
    MirroredEdgeInvariant(edges)
        => \A i \in 1..Len(all_walks) : StrandConsistent(all_walks[i])

\* C7: from one step to the next the consumed-node set loses no node, it never
\* has more than n_original_g nodes, and a sub-graph built after a node was
\* consumed does not hold that node.
C7_ConsumedSetGrows ==
    [][/\ Consumed \subseteq Consumed'
       /\ Cardinality(Consumed') <= n_original_g
       /\ Range(keep_node_idx') \cap Consumed = {}]_vars

\* C7 witness: a later iteration routes on a sub-graph that lacks consumed nodes
C7_Witness ==
    /\ pc = "forward"
    /\ idx_contig >= 2
    /\ Consumed # {}
    /\ Range(keep_node_idx) = Nodes \ Consumed

\* C8: a phase never runs more than floor(n_sub_g / 2) rounds: the round
\* counter of the running phase and the number of forward columns kept stay
\* within that budget.
C8_RoundsWithinBudget ==
    /\ nb_steps <= Len(keep_node_idx) \div 2
    /\ \A k \in 1..Len(paths_nodes_forward) :
           Len(paths_nodes_forward[k]) <= Len(keep_node_idx) \div 2

\* C8 witness: a phase used its whole budget while its walks kept moving and
\* no cycle check fired
C8_Witness ==
    /\ nb_steps = Len(keep_node_idx) \div 2
    /\ nb_steps >= 2
    /\ flag_dead_ends
    /\ flag_cycles

\* the sub-graph of the iteration has no edge besides the sentinel self-loops
SubGraphHasNoEdges ==
    \A e \in remove_self_loop(edges) :
        e[1] \notin Range(keep_node_idx) \/ e[2] \notin Range(keep_node_idx)

\* C9 as claimed: an iteration whose sub-graph has at most one node or no edges
\* never raises.
C9_Claimed_SmallSubGraphNeverRaises ==
    (pc = "error" /\ idx_contig >= 1)
        => ~(Len(keep_node_idx) <= 1 \/ SubGraphHasNoEdges)

\* path k of the running iteration was seeded on the edge src -> dst of the
\* whole graph (first iteration: local ids are the node ids)
SeededOn(k, src, dst) ==
    /\ idx_contig = 1
    /\ k \in DOMAIN src_init_edges
    /\ src_init_edges[k] = src
    /\ dst_init_edges[k] = dst

\* the call runs on the path graph of the scenario
OnPathGraph ==
    /\ n_original_g = Cardinality(PathEdges) + 1
    /\ remove_self_loop(edges) \in {PathEdges, MirrorClosure(PathEdges)}

\* C12 as claimed: on the path graph 0->1->2->3->4->5 with equal scores, a path
\* seeded on the edge (0,1) is routed to the candidate walk 0,1,2,3,4,5: its
\* routing does not raise, and the forward phase ends on the columns 1,2,3,4,5.
C12_Claimed_PathWalkRouted ==
    \A k \in 1..nb_paths :
        (OnPathGraph /\ SeededOn(k, 0, 1)) =>
            /\ pc # "error"
            /\ pc = "backward" => paths_nodes_forward[k] = <<1, 2, 3, 4, 5>>

\* w is a directed path of the graph E: every consecutive pair is an edge
\* between two different nodes
IsPathOf(w, E) ==
    \A i \in 1..(Len(w) - 1) : w[i] # w[i + 1] /\ <<w[i], w[i + 1]>> \in E

\* C17: every walk of the list is a directed path of the original graph along
\* non-self-loop edges, and a walk is appended only with nodes of the
\* sub-graph of the iteration that produced it, none of them consumed before.
C17_WalksArePathsOfUnconsumedNodes ==
    [][/\ \A i \in 1..Len(all_walks') : IsPathOf(all_walks'[i], remove_self_loop(edges'))
       /\ Len(all_walks') > Len(all_walks)
             => /\ WalkNodes(all_walks'[Len(all_walks')]) \subseteq Range(keep_node_idx)
                /\ WalkNodes(all_walks'[Len(all_walks')]) \cap Consumed = {}]_vars

\* C17 witness: a walk of three nodes or more, and a second walk found on the
\* sub-graph left by the first
C17_Witness ==
    /\ Len(all_walks) >= 2
    /\ Len(all_walks[1]) >= 3
    /\ Len(all_walks[2]) >= 2

\* C18 as claimed: no write into a path buffer (column 0 at lines 157 and 184,
\* column nb_steps at lines 162 and 189) is past the last column, so no routing
\* phase faults.
C18_Claimed_BufferWritesInRange ==
    pc = "error" => raised_at \notin {157, 162, 184, 189}

\* C19 as claimed: with len_threshold >= 1 the call always reaches DONE, within
\* n_original_g + 1 outer iterations.  A call ends by returning (DONE) or by
\* raising, and every step moves it forward, so it reaches DONE on every run
\* exactly when no run ends raising.
C19_Claimed_AlwaysReachesDone ==
    len_threshold >= 1 => (pc # "error" /\ idx_contig <= n_original_g + 1)

\* the step ends a running phase by the cycle criterion: flag_cycles falls
CycleCriterionFires ==
    /\ pc \in {"forward", "backward"}
    /\ pc' = pc
    /\ flag_cycles
    /\ ~flag_cycles'

\* the path buffer of the running phase after the step
PhaseBufferAfter == IF pc = "forward" THEN paths_nodes_forward' ELSE paths_nodes_backward'

\* C20 as claimed: the cycle criterion ends a phase only at a step count that is
\* a multiple of 100 and only if every one of the nb_paths walks has fewer
\* distinct nodes than steps taken.
C20_Claimed_CycleCriterionNeedsEveryWalk ==
    [][CycleCriterionFires =>
          /\ nb_steps' % CycleCheckPeriod = 0
          /\ \A k \in 1..nb_paths :
                 Cardinality(Range(PhaseBufferAfter[k])) < nb_steps']_vars


-----------------------------------------------------------------------------
(* Claims about the ground-truth walk builder, checked under GtSpec *)

\* the walk the running iteration of dfs_gt_graph hands to get_correct_edges
WalkGiven == gt_all_walks'[Len(gt_all_walks')]

\* consecutive positions of w whose reads overlap: the second starts before
\* the first ends
OverlappingPairs(w) == {i \in 1..(Len(w) - 1) : read_start[w[i + 1]] < read_end[w[i]]}

\* C13: for every walk given to get_correct_edges and every consecutive pair
\* (src, dst) of it with read_start(dst) < read_end(src), the edge (src, dst)
\* is in the returned positive-strand set and the mirrored edge
\* (dst XOR 1, src XOR 1) is in the returned negative-strand set.
C13_OverlappingPairsAreCorrectEdges ==
    [][Len(gt_all_walks') > Len(gt_all_walks) =>
          \A i \in OverlappingPairs(WalkGiven) :
              /\ <<WalkGiven[i], WalkGiven[i + 1]>> \in pos_str_edges'
              /\ <<Partner(WalkGiven[i + 1]), Partner(WalkGiven[i])>> \in neg_str_edges']_vars

\* C13 witness: get_correct_edges was given a walk of three nodes or more in
\* which some consecutive reads overlap and some do not
C13_Witness ==
    /\ gt_all_walks # <<>>
    /\ LET w == gt_all_walks[Len(gt_all_walks)]
       IN  /\ Len(w) >= 3
           /\ OverlappingPairs(w) # {}
           /\ OverlappingPairs(w) # 1..(Len(w) - 1)
    /\ pos_str_edges # {}

\* C14 (as claimed): for every positive-strand edge (src, dst) in the
\* correct-edge set dfs_gt_graph returns, the mirrored edge
\* (dst XOR 1, src XOR 1) is in the negative-strand correct-edge set it returns,
\* whatever the number of walks accumulated.
C14_Claimed_ReturnedEdgesHaveMirrors ==
    gt_pc = "returned" =>
        \A e \in correct_edges : <<Partner(e[2]), Partner(e[1])>> \in neg_str_correct_edges


-----------------------------------------------------------------------------
(* Claims about the component builder, checked under CompSpec *)

\* some node of C1 has an out-neighbour in C2 that has an out-neighbour itself
JoinedThroughLiveJoint(C1, C2) ==
    \E node \in C1 : \E j \in Range(neighbors[node]) \cap C2 : Len(neighbors[j]) > 0

\* some node of C1 has an out-neighbour in C2
JoinedThroughJoint(C1, C2) == \E node \in C1 : Range(neighbors[node]) \cap C2 # {}

\* C15 (as claimed): when get_components returns, no two distinct returned
\* components C1, C2 are such that a node of C1 has an out-neighbour j in C2
\* and j has at least one out-neighbour.
C15_Claimed_ReturnedAtFixedPoint ==
    comp_pc = "returned" =>
        \A i, j \in 1..Len(components) :
            i # j => ~JoinedThroughLiveJoint(components[i], components[j])

\* C16: a merge of C1 into C2 happens only if some node of C1 has an
\* out-neighbour in C2 that itself has at least one out-neighbour; the merge
\* replaces exactly C1 and C2 by their union.
C16_MergeNeedsLiveJoint ==
    [][(comp_pc = "merge" /\ Len(components') < Len(components)) =>
          \E i, j \in 1..Len(components) :
              /\ i # j
              /\ JoinedThroughLiveJoint(components[i], components[j])
              /\ Range(components') =
                     (Range(components) \ {components[i], components[j]})
                         \cup {components[i] \cup components[j]}]_vars

\* C16 witness: a merge has happened, and two of the components left are
\* joined through dead joint nodes only
C16_Witness ==
    /\ comp_pc \in {"merge", "returned"}
    /\ Len(components) < Len(Starts)
    /\ \E i, j \in 1..Len(components) :
          /\ i # j
          /\ JoinedThroughJoint(components[i], components[j])
          /\ ~JoinedThroughLiveJoint(components[i], components[j])


-----------------------------------------------------------------------------
(* Claims about the routing rounds, checked under Spec *)

\* a round of the forward or of the backward loop that ran to its end
RoutingRound == pc \in {"forward", "backward"} /\ pc' = pc /\ nb_steps' = nb_steps + 1

\* in the round every walk's next node is its current node
AllStuck == \A k \in 1..nb_paths : idx_cur_nodes_subg'[k] = idx_cur_nodes_subg[k]

\* C21: the dead-end criterion ends a routing phase exactly at the first round
\* in which all P walks are stuck at once: a round is run only while the flag
\* is up, and it takes the flag down if and only if every walk's greedy next
\* node is its current node.
C21_DeadEndExactlyWhenAllStuck ==
    [][RoutingRound => (flag_dead_ends /\ (flag_dead_ends' <=> ~AllStuck))]_vars

\* C21 witness: with two walks, a phase was ended by the dead-end criterion
\* in its second round or later, after rounds in which some walk moved
C21_Witness ==
    /\ pc \in {"forward", "backward"}
    /\ nb_paths = 2
    /\ nb_steps >= 2
    /\ ~flag_dead_ends
    /\ idx_cur_nodes_subg[1] # idx_cur_nodes_subg[2]


\* node of the original graph at which walk k stands before and after a round
NodeBefore(k) == MapSubgToG(keep_node_idx, idx_cur_nodes_subg[k])

NodeAfter(k) == MapSubgToG(keep_node_idx, idx_cur_nodes_subg'[k])

\* edges of the current sub-graph that leave c, and that enter c
OutEdges(c) == {e \in edges : e[1] = c /\ e[2] \in Range(keep_node_idx)}

InEdges(c) == {e \in edges : e[2] = c /\ e[1] \in Range(keep_node_idx)}

\* e is one of `among` and no edge of `among` has a greater score
MaxScoreAmong(e, among) == e \in among /\ \A o \in among : score[o] <= score[e]

\* no edge of `among` other than the self-loop of c has a score above -inf
OnlySentinelLeft(c, among) == \A o \in among \ {<<c, c>>} : ~(score[o] > NegInf)

\* C22: in every forward round a walk at c moves to the destination of a
\* maximum-score outgoing edge of c in the current sub-graph, in every
\* backward round to the source of a maximum-score incoming edge; it stays at
\* c only if c has no other such edge with a score above -infinity.
C22_RoundsFollowBestEdge ==
    [][RoutingRound =>
          \A k \in 1..nb_paths :
              IF pc = "forward"
              THEN /\ MaxScoreAmong(<<NodeBefore(k), NodeAfter(k)>>, OutEdges(NodeBefore(k)))
                   /\ NodeAfter(k) = NodeBefore(k)
                          => OnlySentinelLeft(NodeBefore(k), OutEdges(NodeBefore(k)))
              ELSE /\ MaxScoreAmong(<<NodeAfter(k), NodeBefore(k)>>, InEdges(NodeBefore(k)))
                   /\ NodeAfter(k) = NodeBefore(k)
                          => OnlySentinelLeft(NodeBefore(k), InEdges(NodeBefore(k)))]_vars

\* C22 witness: a forward round moved a walk from a node that has a second
\* outgoing edge of lower score to another node of the sub-graph
C22_Witness ==
    /\ pc = "forward"
    /\ nb_steps >= 1
    /\ \E k \in 1..nb_paths :
          LET c == paths_nodes_forward[k][nb_steps]
              n == paths_nodes_forward[k][nb_steps + 1]
          IN  /\ n # c
              /\ \E o \in OutEdges(c) : o[2] \notin {c, n} /\ score[o] < score[<<c, n>>]


-----------------------------------------------------------------------------
(* Further claims about the sanitizer, checked under SanSpec *)

\* some duplicated value of w lies between two singleton values
SingletonsInterleaved(w) ==
    \E i, j, k \in 1..Len(w) :
        /\ i < j /\ j < k
        /\ Count(w, w[i]) = 1 /\ Count(w, w[j]) # 1 /\ Count(w, w[k]) = 1

\* the positions a..b of w hold pairwise different values none of which is in
\* the set taken
FreshRun(w, a, b, taken) ==
    /\ \A i, j \in a..b : i # j => w[i] # w[j]
    /\ \A i \in a..b : w[i] \notin taken

\* length of the left pattern: the longest run of pairwise different values
\* that ends just before position first
LeftPatternLen(w, first) == SetMax({n \in 0..(first - 1) : FreshRun(w, first - n, first - 1, {})})

\* length of the right pattern: the longest run of pairwise different values,
\* none of them a value of the left pattern, that starts just after position last
RightPatternLen(w, first, last) ==
    LET taken == {w[i] : i \in (first - LeftPatternLen(w, first))..(first - 1)}
    IN  SetMax({n \in 0..(Len(w) - last) : FreshRun(w, last + 1, last + n, taken)})

\* length of left pattern + central part + right pattern of a walk whose
\* singleton values sit at adjacent positions
FinalPatternLen(w) ==
    LET first == SetMin(IdxNonDuplicate(w))
        last == SetMax(IdxNonDuplicate(w))
    IN  LeftPatternLen(w, first) + (last - first + 1) + RightPatternLen(w, first, last)

\* the final pattern of w leaves out some distinct value of w
PatternTooShort(w) ==
    /\ IdxNonDuplicate(w) # {}
    /\ ~SingletonsInterleaved(w)
    /\ FinalPatternLen(w) # Cardinality(Range(w))

\* C23: if the positions that hold singleton values do not form one contiguous
\* index range (a duplicated value lies between two singleton values) the
\* sanitizer returns the empty walk; it also returns the empty walk when the
\* final pattern length differs from the number of distinct input values.
C23_AmbiguousWalksGiveEmpty ==
    san_pc = "returned" =>
        ((SingletonsInterleaved(walk_in) \/ PatternTooShort(walk_in)) => walk_out = <<>>)

\* C23 witness: the sanitizer returned on a walk whose singleton values are
\* split by a duplicated value
C23_Witness ==
    /\ san_pc = "returned"
    /\ SingletonsInterleaved(walk_in)
    /\ walk_out = <<>>


\* out is w[a], w[a + 1], .., for some position a of w
ContiguousSliceOf(out, w) ==
    \E a \in 1..Len(w) :
        /\ a + Len(out) - 1 <= Len(w)
        /\ \A i \in 1..Len(out) : out[i] = w[a + i - 1]

\* C24: a non-empty walk the sanitizer returns is a contiguous slice of the
\* input and holds every distinct value of the input exactly once; an input
\* without a singleton value gives the empty walk.
C24_OutputIsSliceWithAllValues ==
    san_pc = "returned" =>
        /\ walk_out # <<>> =>
              /\ ContiguousSliceOf(walk_out, walk_in)
              /\ Range(walk_out) = Range(walk_in)
              /\ NoDuplicates(walk_out)
        /\ (\A v \in Range(walk_in) : Count(walk_in, v) # 1) => walk_out = <<>>

\* C24 witness: a returned walk that is shorter than the input and starts and
\* ends with values the input repeats
C24_Witness ==
    /\ san_pc = "returned"
    /\ Len(walk_out) >= 3
    /\ Len(walk_out) < Len(walk_in)
    /\ Count(walk_in, walk_out[1]) > 1
    /\ Count(walk_in, walk_out[Len(walk_out)]) > 1


-----------------------------------------------------------------------------
(* Further claims about the decoding loop, checked under Spec *)

\* nodes of the walks accepted so far
AcceptedNodes == UNION {Range(all_walks[i]) : i \in 1..Len(all_walks)}

\* original nodes that are neither in an accepted walk nor the partner of a
\* node of one
FreeNodes == {n \in Nodes : n \notin AcceptedNodes /\ Partner(n) \notin AcceptedNodes}

\* an outer iteration starts and builds its sub-graph
IterationStarts == pc = "seeding" /\ idx_contig' = idx_contig + 1 /\ raised_at' # 124

\* C25: at the start of every outer iteration the sub-graph's node set is
\* exactly the set of original nodes that are neither in a previously accepted
\* walk nor the partner of a node of one, and the local-to-global id map is
\* injective with exactly this set as its image.
C25_SubGraphIsTheFreeNodes ==
    [][IterationStarts =>
          LET n_sub_g == Len(keep_node_idx')
              map_subg_to_g == [i \in 0..(n_sub_g - 1) |-> MapSubgToG(keep_node_idx', i)]
          IN  /\ Range(keep_node_idx') = FreeNodes
              /\ \A i, j \in 0..(n_sub_g - 1) : i # j => map_subg_to_g[i] # map_subg_to_g[j]
              /\ {map_subg_to_g[i] : i \in 0..(n_sub_g - 1)} = FreeNodes]_vars

\* C25 witness: a second or later iteration has built its sub-graph after a
\* non-empty walk was accepted
C25_Witness ==
    /\ pc = "forward"
    /\ nb_steps = 0
    /\ idx_contig >= 2
    /\ AcceptedNodes # {}
    /\ Range(keep_node_idx) = FreeNodes


-----------------------------------------------------------------------------
(* Claims about dfs, checked under DfsSpec *)

\* a round of the loop that sets the visited entry of the node it pops
Visits(current) ==
    /\ dfs_pc = "loop"
    /\ dfs_stack # <<>>
    /\ current = dfs_stack[Len(dfs_stack)]
    /\ current \notin dfs_visited
    /\ dfs_visited' = dfs_visited \cup {current}

\* positive-strand successors of c outside `seen` whose read_start lies in
\* [read_start(c), read_end(c)]
OverlapCandidates(c, seen) ==
    {n \in Range(neighbors[c]) \ seen :
        /\ read_strand[n] = 1
        /\ read_start[c] <= read_start[n]
        /\ read_start[n] <= read_end[c]}

\* positive-strand successors of c outside `seen` that start after c ends
GapCandidates(c, seen) ==
    {n \in Range(neighbors[c]) \ seen : read_strand[n] = 1 /\ read_start[n] > read_end[c]}

\* the entries a round puts on the stack, bottom first
PushedNow == SubSeq(dfs_stack', Len(dfs_stack), Len(dfs_stack'))

\* the nodes that were unvisited when the p-th visited node was visited
UnvisitedAt(p) == DfsNodes \ (dfs_avoid \cup {dfs_order[q] : q \in 1..p})

\* a round pushes gap successors only if the node has no overlapping successor
GapOnlyWithoutOverlap(current) ==
    OverlapCandidates(current, dfs_visited') # {}
        => Range(PushedNow) \cap GapCandidates(current, dfs_visited') = {}

\* C26 (as claimed): the overlapping successors of a node are explored in
\* increasing read_start order, smallest first: when one of them is explored,
\* those with a smaller read_start have been explored before; gap successors
\* are pushed only when the node has no overlapping successor.
C26_Claimed_ExploredInIncreasingStart ==
    [][\A m \in DfsNodes :
          Visits(m) =>
              /\ GapOnlyWithoutOverlap(m)
              /\ \A p \in 1..Len(dfs_order) :
                    m \in OverlapCandidates(dfs_order[p], DfsNodes \ UnvisitedAt(p)) =>
                        \A n \in OverlapCandidates(dfs_order[p], DfsNodes \ UnvisitedAt(p)) :
                            read_start[n] < read_start[m] => n \in dfs_visited]_vars

\* C26 (amended): a round pushes the overlapping successors of its node, or
\* its gap successors if it has no overlapping one, each once and by
\* decreasing read_start, so that they are taken off the stack smallest first.
C26_PushedByDecreasingStart ==
    [][\A current \in DfsNodes :
          Visits(current) =>
              /\ GapOnlyWithoutOverlap(current)
              /\ Range(PushedNow) =
                     IF OverlapCandidates(current, dfs_visited') # {}
                     THEN OverlapCandidates(current, dfs_visited')
                     ELSE GapCandidates(current, dfs_visited')
              /\ Len(PushedNow) = Cardinality(Range(PushedNow))
              /\ \A i, j \in 1..Len(PushedNow) :
                    i < j => read_start[PushedNow[i]] >= read_start[PushedNow[j]]]_vars

\* C26 witness: a visited node pushed two overlapping successors of different
\* read_start and left out a gap successor
C26_Witness ==
    /\ dfs_pc = "loop"
    /\ \E c \in Range(dfs_order) : \E n, m \in DOMAIN dfs_path :
          /\ dfs_path[n] = c /\ dfs_path[m] = c
          /\ {n, m} \subseteq OverlapCandidates(c, dfs_avoid)
          /\ read_start[n] < read_start[m]
          /\ \E g \in GapCandidates(c, dfs_avoid) : g \notin DOMAIN dfs_path


\* position of node n in the order of visits
VisitRank(n) == CHOOSE p \in 1..Len(dfs_order) : dfs_order[p] = n

\* C27: dfs returns a walk whose first node is the start node and whose last
\* node has the greatest read_end among the nodes visited in the search, the
\* first one reached when several tie.
C27_WalkFromStartToFurthestEnd ==
    dfs_pc = "returned" =>
        /\ dfs_walk # <<>>
        /\ dfs_walk[1] = dfs_start
        /\ dfs_order # <<>> =>
              LET last == dfs_walk[Len(dfs_walk)]
              IN  /\ last \in Range(dfs_order)
                  /\ \A n \in Range(dfs_order) :
                        /\ read_end[n] <= read_end[last]
                        /\ read_end[n] = read_end[last] => VisitRank(last) <= VisitRank(n)

\* C27 witness: a returned walk of three nodes or more whose last node ties
\* with a node visited later, other nodes having been visited after it
C27_Witness ==
    /\ dfs_pc = "returned"
    /\ Len(dfs_walk) >= 3
    /\ \E n \in Range(dfs_order) :
          /\ n # dfs_walk[Len(dfs_walk)]
          /\ read_end[n] = read_end[dfs_walk[Len(dfs_walk)]]


\* C28: the walk dfs returns holds no node twice; each consecutive pair (a, b)
\* of it is an edge of the successor map with read_start(b) >= read_start(a);
\* and every node after the first is a positive-strand node outside avoid.
C28_WalkIsForwardPath ==
    dfs_pc = "returned" =>
        /\ NoDuplicates(dfs_walk)
        /\ \A i \in 1..(Len(dfs_walk) - 1) :
              /\ dfs_walk[i + 1] \in Range(neighbors[dfs_walk[i]])
              /\ read_start[dfs_walk[i + 1]] >= read_start[dfs_walk[i]]
        /\ \A i \in 2..Len(dfs_walk) :
              /\ read_strand[dfs_walk[i]] # 0 - 1
              /\ dfs_walk[i] \notin dfs_avoid

\* a returned walk of three nodes, from a start that also has a negative-strand
\* successor and a successor in avoid
C28_Witness ==
    /\ dfs_pc = "returned"
    /\ Len(dfs_walk) >= 3
    /\ \E n \in Range(neighbors[dfs_start]) : read_strand[n] = 0 - 1
    /\ \E n \in Range(neighbors[dfs_start]) : n \in dfs_avoid


\* read_end of the last node of a walk
EndOf(walk) == read_end[walk[Len(walk)]]

\* C29 (as claimed): dfs_gt_neurips_graph keeps a walk only if it has more than
\* one node and ends strictly after every walk kept before it.
C29_Claimed_KeptWalksEndStrictlyLater ==
    \A j \in 1..Len(sweep_all_walks) :
        /\ Len(sweep_all_walks[j]) > 1
        /\ \A i \in 1..(j - 1) : EndOf(sweep_all_walks[i]) < EndOf(sweep_all_walks[j])


\* C30: dfs_gt_neurips_graph terminates: a step taken at the head of its loop
\* returns when no positive-strand node remains; otherwise it seeds a dfs at a
\* remaining node and either returns, which it does exactly when the walk is
\* kept and ends at the largest read_end of the positive strand, or removes
\* at least the seed from the remaining nodes, so that a run has at most as
\* many rounds as there are positive-strand nodes.
C30_EveryRoundShrinksOrStops ==
    [][sweep_pc = "loop" =>
          IF all_nodes = {}
          THEN sweep_pc' = "returned"
          ELSE LET seed == sweep_walk'[1]
                   kept == sweep_all_walks' # sweep_all_walks
                   furthest == SetMax({read_end[n] : n \in PositiveNodes})
               IN  /\ seed \in all_nodes
                   /\ IF kept /\ EndOf(sweep_walk') = furthest
                      THEN sweep_pc' = "returned"
                      ELSE /\ sweep_pc' = "loop"
                           /\ all_nodes' \subseteq all_nodes \ {seed}]_vars

\* the sweep has returned from a round that kept a second walk, after a round
\* that discarded one, with two positive-strand nodes never seeded
C30_Witness ==
    /\ sweep_pc = "returned"
    /\ Len(sweep_all_walks) = 2
    /\ Cardinality(all_nodes) = 2
    /\ Cardinality(sweep_all_visited) = 3

=============================================================================
